---- MODULE Spec2Model ----
(***************************************************************************)
(* A model of stock_job_report.py: the daily run that loads                *)
(* references.json, fetches a price for every ticker of TOP_STOCKS,        *)
(* captures first-seen reference prices, runs the job-openings pass when   *)
(* ten days have passed since last_report_date, saves the references when  *)
(* something changed and hands the report to send_report.                  *)
(*                                                                         *)
(* Money is counted in cents and percentages in hundredths of a percent    *)
(* (the two decimals the report prints).  A datetime is a number of ticks, *)
(* TicksPerDay of them to a calendar day; a "%Y-%m-%d" string is the day   *)
(* number.  Python's None is the empty tuple and a present value v is the  *)
(* one-element tuple <<v>>.                                                *)
(***************************************************************************)
EXTENDS Integers, Sequences, FiniteSets, TLC

\* ------------------------------------------------------------- bounds
\* The last calendar day on which a run may start.
MaxDay == 11
\* Instants of a day the clock can show (resolution of datetime.now()).
TicksPerDay == 2

\* (datetime.now() - last_date).days >= 10
IntervalDays == 10

None == <<>>
Some(v) == <<v>>

\* The days on which runs start: the first two, and those from one day
\* before the interval has passed since day 0.
RunDays == {0, 1} \cup ((IntervalDays - 1) .. MaxDay)
Instants == {d * TicksPerDay + h : d \in RunDays, h \in 0 .. (TicksPerDay - 1)}

\* ------------------------------------------------------ configuration
ConfigKeys == {"SENDER_EMAIL", "SENDER_PASSWORD", "RECIPIENT_EMAIL", "SERPAPI_KEY"}

\* os.environ.get(key): the value, or None when the variable is not set.
EnvironGet(env, key) == IF key \in env THEN Some(key) ELSE None

SENDER_EMAIL(env) == EnvironGet(env, "SENDER_EMAIL")
SENDER_PASSWORD(env) == EnvironGet(env, "SENDER_PASSWORD")
RECIPIENT_EMAIL(env) == EnvironGet(env, "RECIPIENT_EMAIL")
SERPAPI_KEY(env) == EnvironGet(env, "SERPAPI_KEY")

\* TOP_STOCKS is an insertion-ordered dict: <<category, tickers>> pairs.
\* The watchlists checked hold leading tickers of the source's categories.
NarrowWatchlist ==
    << <<"Semiconductor", <<"NVDA">> >>,
       <<"AI", <<"MSFT">> >> >>

COMPANY_NAMES ==
    [NVDA |-> "NVIDIA", TSM |-> "TSMC", ASML |-> "ASML", MSFT |-> "Microsoft"]

TickersOf(top_stocks) ==
    UNION {{top_stocks[c][2][i] : i \in 1 .. Len(top_stocks[c][2])} : c \in 1 .. Len(top_stocks)}

\* --------------------------------------------------------- dictionaries
\* A dict is a function; `k in d` is k \in DOMAIN d; {} is the empty function.
EmptyDict == <<>>
DictSet(d, k, v) == [x \in (DOMAIN d) \cup {k} |-> IF x = k THEN v ELSE d[x]]

\* f"{ticker}_reference"
RefKey(ticker) == <<ticker, "_reference">>

\* ------------------------------------------------------------ datetime
\* datetime.strftime("%Y-%m-%d"): the calendar day, the time of day dropped.
strftime(now) == now \div TicksPerDay
\* datetime.strptime(s, "%Y-%m-%d"): midnight of that day.
strptime(day) == day * TicksPerDay
\* timedelta.days: whole days, rounded towards minus infinity.
TimedeltaDays(delta) == delta \div TicksPerDay

\* A later datetime.now() of the same run: the same instant, or the next one
\* when midnight lies between the two readings.
LaterReadings(now) == {now} \cup (IF (now + 1) % TicksPerDay = 0 THEN {now + 1} ELSE {})

\* ------------------------------------------------------------ formatting
\* f"{x:+.2f}%" of x = num / den * 100, in hundredths of a percent; a float
\* division by zero gives nan or inf, which is None here.
RoundDiv(num, den) ==
    IF num >= 0 THEN (2 * num + den) \div (2 * den)
    ELSE 0 - ((2 * (0 - num) + den) \div (2 * den))
\* A variant that forgets the subtraction: current / reference * 100.
PercentOfReference(current, reference) ==
    IF reference = 0 THEN None
    ELSE Some(RoundDiv(current * 10000, reference))
\* A variant that divides by the current value: (current - reference) / current * 100.
PercentOfCurrent(current, reference) ==
    IF current = 0 THEN None
    ELSE Some(RoundDiv((current - reference) * 10000, current))
PercentChange(current, reference) ==
    IF reference = 0 THEN None
    ELSE Some(RoundDiv((current - reference) * 10000, reference))

\* ------------------------------------------------------- get_stock_data
\* What yfinance answers: an exception, or the 'Close' column of
\* history(period='1d') and of history(period='5d').
StockResponses(prices) ==
    {[kind |-> "exception", d1 |-> <<>>, d5 |-> <<>>],
     [kind |-> "history", d1 |-> <<>>, d5 |-> <<>>]}
    \cup {[kind |-> "history", d1 |-> <<p>>, d5 |-> <<p>>] : p \in prices}
    \cup {[kind |-> "history", d1 |-> <<>>, d5 |-> <<q, p>>] : q \in prices, p \in prices}

\* Neither period has a row, or the request raised: no price is to be had.
PriceUnavailable(resp) ==
    resp.kind = "exception" \/ (resp.d1 = <<>> /\ resp.d5 = <<>>)

Tail1(closes) == IF closes = <<>> THEN <<>> ELSE <<closes[Len(closes)]>>

\* A variant that answers a failed fetch with a zero-price dict, as
\* get_job_openings answers with 0.
get_stock_data_placeholder(ticker, resp) ==
    LET data == IF resp.kind = "exception" THEN <<>>
                ELSE IF resp.d1 = <<>> THEN Tail1(resp.d5) ELSE resp.d1
        current_price == IF data = <<>> THEN 0 ELSE data[Len(data)]
        previous_close == IF Len(data) > 1 THEN data[1] ELSE current_price
    IN  Some([symbol |-> ticker,
              price |-> current_price,
              daily_change |-> PercentChange(current_price, previous_close)])

get_stock_data(ticker, resp) ==
    IF resp.kind = "exception" THEN None
    ELSE LET data == IF resp.d1 = <<>> THEN Tail1(resp.d5) ELSE resp.d1 IN
         IF data = <<>> THEN None
         ELSE LET current_price == data[Len(data)]
                  previous_close == IF Len(data) > 1 THEN data[1] ELSE current_price
              IN  Some([symbol |-> ticker,
                        price |-> current_price,
                        daily_change |-> PercentChange(current_price, previous_close)])

\* ----------------------------------------------------- get_job_openings
\* What SerpApi answers: an exception, a JSON object with "error", one with
\* "jobs_results" (count entries), one with "search_parameters" only (its
\* filters carrying the count), or one with none of these keys.
JobResponses(counts) ==
    {[kind |-> "exception", count |-> 0],
     [kind |-> "error", count |-> 0],
     [kind |-> "other", count |-> 0]}
    \cup {[kind |-> "jobs_results", count |-> n] : n \in counts}
    \cup {[kind |-> "search_parameters", count |-> n] : n \in counts}

JobFetchFailed(resp) == resp.kind \in {"exception", "error"}

\* Without an api_key SerpApi answers with an error object.
JobResponsesFor(env, counts) ==
    IF SERPAPI_KEY(env) = None
    THEN {r \in JobResponses(counts) : JobFetchFailed(r)}
    ELSE JobResponses(counts)

get_job_openings(company_name, resp) ==
    IF resp.kind = "exception" THEN 0
    ELSE IF resp.kind = "error" THEN 0
    ELSE IF resp.kind = "jobs_results" THEN resp.count
    ELSE IF resp.kind = "search_parameters" THEN resp.count
    ELSE 0

\* ------------------------------------------------------ references.json
\* The file: missing, holding the JSON text of a references dict, or
\* holding text json.load cannot parse (a write that stopped half way).
MissingFile == [kind |-> "missing", data |-> <<>>]
CorruptFile == [kind |-> "corrupt", data |-> <<>>]
JsonFile(references) == [kind |-> "json", data |-> references]

EmptyReferences ==
    [stock_references |-> EmptyDict,
     job_references |-> EmptyDict,
     last_report_date |-> None]

\* load_references: the dict, or raised (json.load on an unparsable file).
load_references(f) ==
    IF f.kind = "missing" THEN [raised |-> FALSE, value |-> EmptyReferences]
    ELSE IF f.kind = "json" THEN [raised |-> FALSE, value |-> f.data]
    ELSE [raised |-> TRUE, value |-> EmptyReferences]

\* save_references under a write outcome: "ok"; "open_fails" (open(..., 'w')
\* raises, the file is as it was); "dump_fails" (the file was truncated by
\* open and the write stopped).
WriteOutcomes == {"ok", "open_fails", "dump_fails"}
save_references(f, references, outcome) ==
    IF outcome = "ok" THEN JsonFile(references)
    ELSE IF outcome = "open_fails" THEN f
    ELSE CorruptFile

\* ------------------------------------------- should_generate_job_report
\* A variant that wants more than the interval to have passed.
should_generate_job_report_after(references, now) ==
    IF references.last_report_date = None THEN TRUE
    ELSE LET last_date == strptime(references.last_report_date[1])
         IN  TimedeltaDays(now - last_date) > IntervalDays

\* A variant that measures the distance between the two dates, whichever
\* is the later one.
should_generate_job_report_either_way(references, now) ==
    IF references.last_report_date = None THEN TRUE
    ELSE LET last_date == strptime(references.last_report_date[1])
             days == TimedeltaDays(now - last_date)
         IN  days >= IntervalDays \/ 0 - days >= IntervalDays

should_generate_job_report(references, now) ==
    IF references.last_report_date = None THEN TRUE
    ELSE LET last_date == strptime(references.last_report_date[1])
         IN  TimedeltaDays(now - last_date) >= IntervalDays

\* ------------------------------------------------------ generate_report
\* `if key not in d: d[key] = value`
\* A variant that stores the observation on every run.
OverwriteReference(d, key, value) == DictSet(d, key, value)

CaptureReference(d, key, value) ==
    IF key \in DOMAIN d THEN d ELSE DictSet(d, key, value)

\* A variant with `new_references = True` outside the `if`.
NewReferencesAlways(flag, d, key) == TRUE

\* new_references after `if key not in d: ...; new_references = True`
NewReferencesAfterCapture(flag, d, key) ==
    IF key \in DOMAIN d THEN flag ELSE TRUE

\* A variant that sets the date on every run.
MarkReportDateAlways(refs, gen, day) == [refs EXCEPT !.last_report_date = Some(day)]

\* `if generate_jobs: references['last_report_date'] = today`
MarkReportDate(refs, gen, day) ==
    IF gen THEN [refs EXCEPT !.last_report_date = Some(day)] ELSE refs

\* ((current_jobs - ref_jobs) / ref_jobs) * 100 if ref_jobs > 0 else 0
\* A variant without the `if ref_jobs > 0` guard.
JobChangeUnguarded(current_jobs, ref_jobs) == PercentChange(current_jobs, ref_jobs)
JobChange(current_jobs, ref_jobs) ==
    IF ref_jobs > 0 THEN PercentChange(current_jobs, ref_jobs) ELSE Some(0)

\* pd.DataFrame(list of dicts): the columns are the keys of the dicts, and
\* an empty list gives a frame with no columns.
StockColumns == {"Symbol", "Current Price", "Change vs Reference", "Daily Change"}
JobColumns == {"Sector", "Company", "Current Jobs", "Change vs Reference"}
DataFrame(rows, columns) ==
    [columns |-> IF rows = <<>> THEN {} ELSE columns, rows |-> rows]

\* ---------------------------------------------------------------- inputs
\* Closing prices (cents) and job counts the sources may report per ticker.
Prices(ticker) == IF ticker = "NVDA" THEN {10000, 11000} ELSE {30000}
JobCounts(ticker) == IF ticker = "NVDA" THEN {50, 75} ELSE {20}
FullEnvironment == ConfigKeys

\* ----------------------------------------------------------------- state
VARIABLES
    TOP_STOCKS,      \* the watchlist, fixed for a deployment
    file,            \* references.json
    environ,         \* the configuration variables set for the process
    pc,              \* "idle", "stocks", "jobs", "finish", "send", "done", "crashed"
    exc,             \* the uncaught exception that ended the process, or "none"
    references,      \* generate_report's references dict
    today,           \* generate_report's today
    generate_jobs,
    new_references,
    stock_report,    \* ordered dict: <<category, DataFrame>> pairs
    category_data,
    job_data,
    job_report,
    ci, ti,          \* the loops' position: category and ticker index
    file_at_load,    \* references.json as this run found it
    loaded,          \* the dict load_references returned to this run
    gate_now,        \* the datetime.now() should_generate_job_report read
    stock_failed,    \* tickers for which yfinance had no price in this run
    job_failed,      \* tickers whose job fetch raised or answered an error
    fetches,         \* source calls made by this run
    saves,           \* save_references calls made by this run
    save_raised,     \* whether save_references raised in this run
    send_called,     \* whether __main__ reached send_report
    delivery         \* "none", "sent", "failed": the SMTP attempt

vars == <<TOP_STOCKS, file, environ, pc, exc, references, today, generate_jobs, new_references,
          stock_report, category_data, job_data, job_report, ci, ti, file_at_load,
          loaded, gate_now, stock_failed, job_failed, fetches, saves, save_raised,
          send_called, delivery>>

CategoryCount == Len(TOP_STOCKS)
CategoryName(c) == TOP_STOCKS[c][1]
CategoryTickers(c) == TOP_STOCKS[c][2]
Tickers == TickersOf(TOP_STOCKS)

InitWith(top_stocks) ==
    /\ TOP_STOCKS = top_stocks
    /\ file = MissingFile
    /\ environ = FullEnvironment
    /\ pc = "idle"
    /\ exc = "none"
    /\ references = EmptyReferences
    /\ today = 0
    /\ generate_jobs = FALSE
    /\ new_references = FALSE
    /\ stock_report = <<>>
    /\ category_data = <<>>
    /\ job_data = <<>>
    /\ job_report = None
    /\ ci = 1
    /\ ti = 1
    /\ file_at_load = MissingFile
    /\ loaded = EmptyReferences
    /\ gate_now = 0
    /\ stock_failed = {}
    /\ job_failed = {}
    /\ fetches = 0
    /\ saves = 0
    /\ save_raised = FALSE
    /\ send_called = FALSE
    /\ delivery = "none"

\* A new process (the scheduler's next invocation): the module's globals are
\* read from the environment, then generate_report runs to the first loop:
\* load_references, today, the empty reports, should_generate_job_report.
StartRun(instants, environments) ==
    /\ pc \in {"idle", "done", "crashed"}
    /\ \E now \in instants, env \in environments :
         LET ld == load_references(file) IN
         /\ environ' = env
         /\ today' = strftime(now)
         /\ stock_report' = <<>>
         /\ category_data' = <<>>
         /\ job_data' = <<>>
         /\ job_report' = None
         /\ new_references' = FALSE
         /\ ci' = 1
         /\ ti' = 1
         /\ stock_failed' = {}
         /\ job_failed' = {}
         /\ fetches' = 0
         /\ saves' = 0
         /\ save_raised' = FALSE
         /\ send_called' = FALSE
         /\ delivery' = "none"
         /\ references' = ld.value
         /\ file_at_load' = file
         /\ loaded' = ld.value
         /\ IF ld.raised
            THEN /\ pc' = "crashed"
                 /\ exc' = "JSONDecodeError"
                 /\ generate_jobs' = FALSE
                 /\ gate_now' = now
            ELSE /\ pc' = "stocks"
                 /\ exc' = "none"
                 /\ \E now2 \in LaterReadings(now) :
                      /\ gate_now' = now2
                      /\ generate_jobs' = should_generate_job_report(ld.value, now2)
    /\ UNCHANGED <<TOP_STOCKS, file>>

\* One row of a category's table.
StockRow(ticker, stock_data, ref_price) ==
    [Symbol |-> ticker,
     CurrentPrice |-> stock_data.price,
     ChangeVsReference |-> PercentChange(stock_data.price, ref_price),
     DailyChange |-> stock_data.daily_change]

\* category_data.append(row), job_data.append(row)
\* A variant that puts the new row first: rows.insert(0, row).
InsertRowFirst(rows, row) == <<row>> \o rows
AppendRow(rows, row) == Append(rows, row)

\* A variant whose job loop stands outside the `if generate_jobs:`.
JobSectionAlways(gen) == "jobs"

\* `if generate_jobs:` around the job section: its loop runs, or is skipped.
JobSectionEntry(gen) == IF gen THEN "jobs" ELSE "finish"

\* One pass of the ticker loop of the stock section, the sources reporting
\* prices of prices[ticker]; after the last ticker of a category its
\* DataFrame is stored, and after the last category the job section
\* begins: job_data = [], and with generate_jobs the date is set.
FetchStockFrom(prices) ==
    /\ pc = "stocks"
    /\ LET category == CategoryName(ci)
           tickers == CategoryTickers(ci)
           ticker == tickers[ti]
           last_ticker == ti = Len(tickers)
           last_category == ci = CategoryCount
       IN
       \E resp \in StockResponses(prices[ticker]) :
         LET stock_data == get_stock_data(ticker, resp)
             skip == stock_data = None
             ref_key == RefKey(ticker)
             refs1 == IF skip THEN references
                      ELSE [references EXCEPT !.stock_references =
                              CaptureReference(@, ref_key, stock_data[1].price)]
             rows1 == IF skip THEN category_data
                      ELSE AppendRow(category_data,
                                     StockRow(ticker, stock_data[1],
                                              refs1.stock_references[ref_key]))
             flag1 == IF skip THEN new_references
                      ELSE NewReferencesAfterCapture(new_references,
                                                     references.stock_references, ref_key)
             begin_jobs == last_ticker /\ last_category
         IN
         /\ fetches' = fetches + 1
         /\ stock_failed' = IF PriceUnavailable(resp)
                            THEN stock_failed \cup {ticker} ELSE stock_failed
         /\ category_data' = IF last_ticker THEN <<>> ELSE rows1
         /\ stock_report' = IF last_ticker
                            THEN Append(stock_report,
                                        <<category, DataFrame(rows1, StockColumns)>>)
                            ELSE stock_report
         /\ references' = IF begin_jobs
                          THEN MarkReportDate(refs1, generate_jobs, today)
                          ELSE refs1
         /\ new_references' = (flag1 \/ (begin_jobs /\ generate_jobs))
         /\ ti' = IF last_ticker THEN 1 ELSE ti + 1
         /\ ci' = IF ~last_ticker THEN ci ELSE IF last_category THEN 1 ELSE ci + 1
         /\ pc' = IF last_ticker /\ last_category
                  THEN JobSectionEntry(generate_jobs)
                  ELSE "stocks"
    /\ UNCHANGED <<TOP_STOCKS, file, environ, exc, today, generate_jobs, job_data, job_report,
                   file_at_load, loaded, gate_now, job_failed, saves, save_raised, send_called,
                   delivery>>

FetchStock == FetchStockFrom([t \in DOMAIN COMPANY_NAMES |-> Prices(t)])

JobRow(category, company_name, current_jobs, ref_jobs) ==
    [Sector |-> category,
     Company |-> company_name,
     CurrentJobs |-> current_jobs,
     ChangeVsReference |-> JobChange(current_jobs, ref_jobs)]

\* One pass of the ticker loop of the job section.
FetchJobs ==
    /\ pc = "jobs"
    /\ LET category == CategoryName(ci)
           tickers == CategoryTickers(ci)
           ticker == tickers[ti]
           last_ticker == ti = Len(tickers)
           last_category == ci = CategoryCount
           company_name == COMPANY_NAMES[ticker]
       IN
       \E resp \in JobResponsesFor(environ, JobCounts(ticker)) :
         LET current_jobs == get_job_openings(company_name, resp)
             refs1 == [references EXCEPT !.job_references =
                         CaptureReference(@, ticker, current_jobs)]
             ref_jobs == refs1.job_references[ticker]
         IN
         /\ fetches' = fetches + 1
         /\ job_failed' = IF JobFetchFailed(resp)
                          THEN job_failed \cup {ticker} ELSE job_failed
         /\ references' = refs1
         /\ new_references' = NewReferencesAfterCapture(new_references,
                                                        references.job_references, ticker)
         /\ job_data' = AppendRow(job_data, JobRow(category, company_name, current_jobs, ref_jobs))
         /\ ti' = IF last_ticker THEN 1 ELSE ti + 1
         /\ ci' = IF ~last_ticker THEN ci ELSE IF last_category THEN 1 ELSE ci + 1
         /\ pc' = IF last_ticker /\ last_category THEN "finish" ELSE "jobs"
    /\ UNCHANGED <<TOP_STOCKS, file, environ, exc, today, generate_jobs, stock_report,
                   category_data, job_report, file_at_load, loaded, gate_now, stock_failed,
                   saves, save_raised, send_called, delivery>>

\* The end of generate_report: job_report, save_references when
\* new_references, and the return to __main__.  An exception of
\* save_references is caught nowhere and ends the process.
Finish(outcomes) ==
    /\ pc = "finish"
    /\ job_report' = IF job_data # <<>> THEN Some(DataFrame(job_data, JobColumns)) ELSE None
    /\ IF new_references
       THEN \E outcome \in outcomes :
              /\ file' = save_references(file, references, outcome)
              /\ saves' = saves + 1
              /\ save_raised' = (outcome # "ok")
              /\ pc' = IF outcome = "ok" THEN "send" ELSE "crashed"
              /\ exc' = IF outcome = "ok" THEN "none" ELSE "OSError"
       ELSE /\ pc' = "send"
            /\ UNCHANGED <<file, saves, save_raised, exc>>
    /\ UNCHANGED <<TOP_STOCKS, environ, references, today, generate_jobs, new_references,
                   stock_report, category_data, job_data, ci, ti, file_at_load, loaded,
                   gate_now, stock_failed, job_failed, fetches, send_called, delivery>>

\* df['Change vs Reference'] raises KeyError on a frame without that column.
HasColumn(df, column) == column \in df.columns

\* send_report builds the message, which reads 'Change vs Reference' and
\* 'Daily Change' of every category's frame and, with has_job_data, the
\* 'Sector' column of job_report; then it tries SMTP, whose exceptions it
\* catches.  Login needs the sender's address and password, sendmail the
\* recipient.
SendReport(smtp_outcomes) ==
    /\ pc = "send"
    /\ send_called' = TRUE
    /\ LET frames_ok == \A i \in 1 .. Len(stock_report) :
                           /\ HasColumn(stock_report[i][2], "Change vs Reference")
                           /\ HasColumn(stock_report[i][2], "Daily Change")
           jobs_ok == generate_jobs => job_report # None
           configured == /\ SENDER_EMAIL(environ) # None
                         /\ SENDER_PASSWORD(environ) # None
                         /\ RECIPIENT_EMAIL(environ) # None
       IN
       IF ~frames_ok
       THEN /\ pc' = "crashed"
            /\ exc' = "KeyError"
            /\ delivery' = "none"
       ELSE IF ~jobs_ok
       THEN /\ pc' = "crashed"
            /\ exc' = "TypeError"
            /\ delivery' = "none"
       ELSE /\ pc' = "done"
            /\ exc' = "none"
            /\ \E smtp \in smtp_outcomes :
                 delivery' = IF smtp = "ok" /\ configured THEN "sent" ELSE "failed"
    /\ UNCHANGED <<TOP_STOCKS, file, environ, references, today, generate_jobs, new_references,
                   stock_report, category_data, job_data, job_report, ci, ti, file_at_load,
                   loaded, gate_now, stock_failed, job_failed, fetches, saves, save_raised>>

SmtpOutcomes == {"ok", "error"}

\* Normal operation: every configuration variable set and the state file
\* writable; the sources and the mail server may fail.
Next ==
    \/ StartRun(Instants, {FullEnvironment})
    \/ FetchStock
    \/ FetchJobs
    \/ Finish({"ok"})
    \/ SendReport(SmtpOutcomes)

Init == InitWith(NarrowWatchlist)

Spec == Init /\ [][Next]_vars

\* Operation with faults: configuration variables may be unset and a write
\* of the state file may fail.  Runs start on day 0 and on the day the
\* interval has passed.
FaultInstants == {0, IntervalDays * TicksPerDay}
FaultEnvironments ==
    {FullEnvironment,
     FullEnvironment \ {"SERPAPI_KEY"},
     FullEnvironment \ {"SENDER_PASSWORD"},
     FullEnvironment \ {"RECIPIENT_EMAIL"},
     {}}

FaultNext ==
    \/ StartRun(FaultInstants, FaultEnvironments)
    \/ FetchStock
    \/ FetchJobs
    \/ Finish(WriteOutcomes)
    \/ SendReport(SmtpOutcomes)

FaultSpec == Init /\ [][FaultNext]_vars

\* ================================================================ claims
StoredReferences(f) == IF f.kind = "json" THEN f.data ELSE EmptyReferences
Keeps(d, e) == \A k \in DOMAIN d : k \in DOMAIN e /\ e[k] = d[k]

\* A run is under way or over, and got past load_references.
InRun == pc # "idle" /\ exc # "JSONDecodeError"
RunEnded == pc \in {"done", "crashed"}

\* The rows this run has built so far.
StockRows ==
    {category_data[j] : j \in 1 .. Len(category_data)}
    \cup UNION {{stock_report[i][2].rows[j] : j \in 1 .. Len(stock_report[i][2].rows)} :
                  i \in 1 .. Len(stock_report)}
JobRows == {job_data[j] : j \in 1 .. Len(job_data)}
StockRowsOf(ticker) == {r \in StockRows : r.Symbol = ticker}
JobRowsOf(ticker) == {r \in JobRows : r.Company = COMPANY_NAMES[ticker]}

\* C1 -- Baseline stability.  For both kinds of baseline: a value the state
\* file holds for an entity is still there, unchanged, after every step of
\* every later run; a run starts from the file's values and keeps them in
\* its references dict; and every change-vs-reference a run reports for an
\* entity whose baseline the file held is computed against that value.
BaselineStability ==
    [][ /\ Keeps(StoredReferences(file).stock_references,
                 StoredReferences(file').stock_references)
        /\ Keeps(StoredReferences(file).job_references,
                 StoredReferences(file').job_references)
        /\ (pc \in {"idle", "done", "crashed"} /\ pc' = "stocks") => file_at_load' = file
        /\ InRun' =>
             LET held == StoredReferences(file_at_load') IN
             /\ Keeps(held.stock_references, references'.stock_references)
             /\ Keeps(held.job_references, references'.job_references)
             /\ \A t \in Tickers' :
                  /\ RefKey(t) \in DOMAIN held.stock_references =>
                       \A r \in StockRowsOf(t)' :
                         r.ChangeVsReference =
                           PercentChange(r.CurrentPrice, held.stock_references[RefKey(t)])
                  /\ t \in DOMAIN held.job_references =>
                       \A r \in JobRowsOf(t)' :
                         r.ChangeVsReference =
                           JobChange(r.CurrentJobs, held.job_references[t])
      ]_vars

\* A later run has observed another price and another job count for NVDA
\* than the baselines the file held, has reported non-zero changes, and has
\* saved: the file holds the old baselines.
BaselineStabilityWitness ==
    /\ pc = "done"
    /\ saves = 1
    /\ LET held == StoredReferences(file_at_load)
           now_held == StoredReferences(file) IN
       /\ RefKey("NVDA") \in DOMAIN held.stock_references
       /\ "NVDA" \in DOMAIN held.job_references
       /\ held.job_references["NVDA"] > 0
       /\ \E r \in StockRowsOf("NVDA") :
            /\ r.CurrentPrice # held.stock_references[RefKey("NVDA")]
            /\ r.ChangeVsReference # Some(0)
       /\ \E r \in JobRowsOf("NVDA") :
            /\ r.CurrentJobs # held.job_references["NVDA"]
            /\ r.ChangeVsReference # Some(0)
       /\ now_held.stock_references[RefKey("NVDA")] = held.stock_references[RefKey("NVDA")]
       /\ now_held.job_references["NVDA"] = held.job_references["NVDA"]

\* C2 -- A failed hiring fetch is handled like a failed price fetch: the
\* entity has no row in this run's hiring section and its hiring baseline
\* is neither captured nor changed.
FailedJobFetchOmitted ==
    \A t \in job_failed :
        /\ JobRowsOf(t) = {}
        /\ (t \in DOMAIN references.job_references) = (t \in DOMAIN loaded.job_references)
        /\ t \in DOMAIN loaded.job_references =>
             references.job_references[t] = loaded.job_references[t]

\* C3 -- A price fetch that is unavailable or raises: the entity gets no row
\* in this run, the run neither creates nor modifies its price baseline,
\* and the loop goes on to the next ticker (or to the next section).
FailedPriceFetchSkipped ==
    [][ /\ \A t \in stock_failed' :
             /\ StockRowsOf(t)' = {}
             /\ (RefKey(t) \in DOMAIN references'.stock_references)
                  = (RefKey(t) \in DOMAIN loaded'.stock_references)
             /\ RefKey(t) \in DOMAIN loaded'.stock_references =>
                  references'.stock_references[RefKey(t)] = loaded'.stock_references[RefKey(t)]
        /\ (pc = "stocks" /\ stock_failed' # stock_failed) =>
             /\ references'.stock_references = references.stock_references
             /\ StockRows' = StockRows
             /\ pc' \in {"stocks", "jobs", "finish"}
             /\ <<ci', ti'>> # <<ci, ti>> \/ pc' # "stocks"
      ]_vars

\* The first ticker's fetch failed, the second ticker was still fetched and
\* has its row and its
\* baseline, and generate_report has returned.
FailedPriceFetchSkippedWitness ==
    /\ "NVDA" \in stock_failed
    /\ StockRowsOf("MSFT") # {}
    /\ RefKey("NVDA") \notin DOMAIN references.stock_references
    /\ RefKey("MSFT") \in DOMAIN references.stock_references
    /\ pc = "send"

\* generate_report is past save_references (or past the decision not to call it).
AfterSave == pc \in {"send", "done"} \/ (pc = "crashed" /\ exc \in {"KeyError", "TypeError"})

\* C4 -- Cadence gate boundary.  The hiring pass runs iff the state file
\* held no last_report_date, or the calendar day the gate read is at least
\* 10 days after the stored date D: open on D+10, closed on D+9 and on
\* every earlier day.
CadenceGateBoundary ==
    InRun =>
        LET stored == StoredReferences(file_at_load).last_report_date
            day == strftime(gate_now)
        IN  IF stored = None THEN generate_jobs
            ELSE /\ generate_jobs = (day - stored[1] >= 10)
                 /\ day = stored[1] + 10 => generate_jobs
                 /\ day < stored[1] + 10 => ~generate_jobs

\* A run on which exactly ten days have passed since the stored date: the
\* gate read midnight of day D+10 and the hiring pass ran.
CadenceGateBoundaryWitness ==
    /\ pc = "done"
    /\ StoredReferences(file_at_load).last_report_date # None
    /\ gate_now = strptime(StoredReferences(file_at_load).last_report_date[1] + 10)
    /\ generate_jobs
    /\ JobRows # {}

\* C5 -- The last refresh date changes on a run exactly when the run
\* executes the hiring pass, and then to the run's date: with the gate
\* closed the dict's and the file's date stay what the file held; with the
\* gate open the dict's date is today, differs from the stored one, and is
\* the file's date once saved.  Before the save the file is untouched.
LastReportDateUpdate ==
    InRun =>
        LET before == StoredReferences(file_at_load).last_report_date
            marked == pc # "stocks"
        IN  /\ ~generate_jobs =>
                 /\ references.last_report_date = before
                 /\ StoredReferences(file).last_report_date = before
            /\ (generate_jobs /\ marked) =>
                 /\ references.last_report_date = Some(today)
                 /\ references.last_report_date # before
            /\ (generate_jobs /\ AfterSave) =>
                 StoredReferences(file).last_report_date = Some(today)
            /\ ~AfterSave => StoredReferences(file).last_report_date = before

\* A gate-open run that replaced a stored date by its own and saved it.
LastReportDateUpdateWitness ==
    /\ pc = "done"
    /\ generate_jobs
    /\ StoredReferences(file_at_load).last_report_date # None
    /\ StoredReferences(file).last_report_date = Some(today)
    /\ StoredReferences(file).last_report_date # StoredReferences(file_at_load).last_report_date

\* C6 -- Write avoidance.  save_references is called at most once per run;
\* a run with the gate closed that captured no price baseline and no hiring
\* baseline never calls it, and leaves references.json as it found it.
WriteAvoidance ==
    /\ saves <= 1
    /\ (/\ InRun
        /\ AfterSave
        /\ ~generate_jobs
        /\ references.stock_references = StoredReferences(file_at_load).stock_references
        /\ references.job_references = StoredReferences(file_at_load).job_references)
       => (saves = 0 /\ file = file_at_load)

\* A gate-closed run that reported prices against stored baselines and
\* ended without a save.
WriteAvoidanceWitness ==
    /\ pc = "done"
    /\ ~generate_jobs
    /\ file_at_load.kind = "json"
    /\ StockRowsOf("NVDA") # {}
    /\ StockRowsOf("MSFT") # {}
    /\ saves = 0
    /\ file = file_at_load

\* C7 -- A failure while writing the state file does not block the report:
\* a run whose save_references raised still hands its report to send_report.
WriteFailureStillSends ==
    (save_raised /\ RunEnded) => send_called

\* C8 -- Loading never fails the run: on a missing or an unparsable state
\* file load_references yields the empty state and the run goes on.
LoadNeverFails ==
    (pc # "idle" /\ file_at_load.kind \in {"missing", "corrupt"}) =>
        /\ exc # "JSONDecodeError"
        /\ loaded = EmptyReferences
        /\ fetches > 0 \/ pc = "stocks"

\* C9 -- With a required configuration value absent the run aborts before
\* any price or hiring fetch, and no report is sent.
MissingConfigurationAborts ==
    (pc # "idle" /\ environ # ConfigKeys) =>
        /\ fetches = 0
        /\ ~send_called
        /\ delivery = "none"

\* C10 -- Whatever per-entity fetches fail, a run that ends has reached the
\* delivery attempt and has completed normally.
DegradedReportDelivered ==
    RunEnded => (pc = "done" /\ delivery # "none")

\* ------------------------------------------------- a quote of 0.0
\* The sources as in Spec, but yfinance may also report a close of 0.0.
ZeroQuotePrices(ticker) == IF ticker = "NVDA" THEN {0, 10000} ELSE {30000}
ZeroQuoteNext ==
    \/ StartRun(FaultInstants, {FullEnvironment})
    \/ FetchStockFrom([t \in DOMAIN COMPANY_NAMES |-> ZeroQuotePrices(t)])
    \/ FetchJobs
    \/ Finish({"ok"})
    \/ SendReport(SmtpOutcomes)
ZeroQuoteSpec == Init /\ [][ZeroQuoteNext]_vars

\* The tickers whose price (hiring) baseline this run captured.
NewStockCaptures ==
    {t \in Tickers : /\ RefKey(t) \in DOMAIN references.stock_references
                     /\ RefKey(t) \notin DOMAIN StoredReferences(file_at_load).stock_references}
NewJobCaptures ==
    {t \in Tickers : /\ t \in DOMAIN references.job_references
                     /\ t \notin DOMAIN StoredReferences(file_at_load).job_references}

TickerOfCompany(company_name) == CHOOSE t \in Tickers : COMPANY_NAMES[t] = company_name

\* C12 -- Hiring zero-baseline policy: against a stored hiring baseline of 0
\* the reported change is 0 for every observed count and nothing is raised;
\* against a baseline above 0 it is (observed - baseline) / baseline * 100,
\* here to the two decimals the report prints.
HiringZeroBaselinePolicy ==
    InRun =>
        /\ pc \in {"jobs", "finish"} => exc = "none"
        /\ \A r \in JobRows :
              LET ref_jobs == references.job_references[TickerOfCompany(r.Company)]
                  change == r.ChangeVsReference
              IN  /\ ref_jobs >= 0
                  /\ change # None
                  /\ ref_jobs = 0 => change = Some(0)
                  /\ ref_jobs > 0 =>
                        LET exact == (r.CurrentJobs - ref_jobs) * 10000
                            shown == change[1] * ref_jobs
                        IN  2 * (shown - exact) <= ref_jobs /\ 2 * (exact - shown) <= ref_jobs

\* A gate-open run over a stored baseline of 0 for NVDA and of 20 for MSFT:
\* 50 openings are reported as +0.00%, and 0 openings against 20 as -100.00%.
HiringZeroBaselinePolicyWitness ==
    /\ pc = "done"
    /\ file_at_load.kind = "json"
    /\ "NVDA" \in DOMAIN file_at_load.data.job_references
    /\ "MSFT" \in DOMAIN file_at_load.data.job_references
    /\ file_at_load.data.job_references["NVDA"] = 0
    /\ file_at_load.data.job_references["MSFT"] = 20
    /\ \E r \in JobRowsOf("NVDA") : r.CurrentJobs = 50 /\ r.ChangeVsReference = Some(0)
    /\ \E r \in JobRowsOf("MSFT") : r.CurrentJobs = 0 /\ r.ChangeVsReference = Some(-10000)

\* references.json's last_report_date.
StoredDate(f) == StoredReferences(f).last_report_date

\* C13 -- The stored last_report_date never decreases, whatever the clock
\* reads from run to run (it may read an earlier day than the run before):
\* no step replaces a stored date by an earlier one or by none, and the
\* date a run holds in memory is never before the one it loaded.
LastReportDateMonotonic ==
    [][/\ StoredDate(file) # None =>
            /\ StoredDate(file') # None
            /\ StoredDate(file')[1] >= StoredDate(file)[1]
       /\ (InRun' /\ StoredDate(file_at_load') # None) =>
            /\ references'.last_report_date # None
            /\ references'.last_report_date[1] >= StoredDate(file_at_load')[1]]_vars

\* A run on a day before the stored date that captured a price baseline,
\* saved, and left the stored date as it was.
LastReportDateMonotonicWitness ==
    /\ pc = "done"
    /\ StoredDate(file_at_load) # None
    /\ today < StoredDate(file_at_load)[1]
    /\ saves = 1
    /\ file # file_at_load
    /\ StoredDate(file) = StoredDate(file_at_load)

\* C14 -- The stored last_report_date always denotes a run whose hiring
\* pass was successful: a gate-open run in which every hiring fetch failed
\* leaves the stored date as it found it, so that the gate is open again
\* for the next run.
LastReportDateOnlyAfterSuccess ==
    (InRun /\ AfterSave /\ generate_jobs /\ job_failed = Tickers) =>
        /\ StoredDate(file) = StoredDate(file_at_load)
        /\ should_generate_job_report(StoredReferences(file), gate_now)

\* ------------------------------------------- a sector of three tickers
\* The first three tickers of the first category and the first of the
\* second, every run on the first day.
WideWatchlist ==
    << <<"Semiconductor", <<"NVDA", "TSM", "ASML">> >>, <<"AI", <<"MSFT">> >> >>
WideInstants == {strptime(0)}
WideInit == InitWith(WideWatchlist)
WideNext ==
    \/ StartRun(WideInstants, {FullEnvironment})
    \/ FetchStock
    \/ FetchJobs
    \/ Finish({"ok"})
    \/ SendReport(SmtpOutcomes)
WideSpec == WideInit /\ [][WideNext]_vars

\* The configured tickers whose price fetch succeeded, in configured order.
Succeeded(tickers) == SelectSeq(tickers, LAMBDA t : t \notin stock_failed)
\* The 'Symbol' column of a category's table.
Symbols(df) == [j \in 1 .. Len(df.rows) |-> df.rows[j].Symbol]

\* C15 -- Partial-failure composition: once the stock section is through,
\* stock_report lists the categories in configured order, and each
\* category's table holds exactly the tickers whose price fetch succeeded,
\* in their configured order.
PartialFailureComposition ==
    (InRun /\ pc # "stocks") =>
        /\ Len(stock_report) = CategoryCount
        /\ \A c \in 1 .. CategoryCount :
              /\ stock_report[c][1] = CategoryName(c)
              /\ Symbols(stock_report[c][2]) = Succeeded(CategoryTickers(c))

\* Three tickers of which the second failed: the table holds the first and
\* the third, in that order, and the second sector follows.
PartialFailureCompositionWitness ==
    /\ pc = "done"
    /\ stock_failed = {"TSM"}
    /\ Len(stock_report) = 2
    /\ stock_report[1][1] = "Semiconductor"
    /\ Symbols(stock_report[1][2]) = <<"NVDA", "ASML">>
    /\ stock_report[2][1] = "AI"
    /\ Symbols(stock_report[2][2]) = <<"MSFT">>

\* C16 -- Absent hiring data is not an error.  A run with the gate closed
\* makes no hiring fetch, returns no job_report and has_job_data = False,
\* and its stock-only report is still delivered without error; a run with
\* the gate open returns has_job_data = True and a job_report.
StockOnlyReportDelivered ==
    /\ (InRun /\ ~generate_jobs) =>
          /\ pc # "jobs"
          /\ job_data = <<>>
          /\ job_failed = {}
          /\ job_report = None
    /\ (InRun /\ ~generate_jobs /\ RunEnded) =>
          /\ pc = "done"
          /\ exc = "none"
          /\ delivery # "none"
    /\ (InRun /\ generate_jobs /\ pc \in {"send", "done"}) => job_report # None

\* ------------------------------------------------ four runs from nothing
\* The scheduler starts the program on day 1, then on day 2, on day 5 and
\* on day 11, at any time of the day, and not again.
ScenarioDays == <<1, 2, 5, 11>>
ScenarioInstants ==
    LET done == IF pc = "idle" THEN 0
                ELSE CHOOSE i \in 1 .. Len(ScenarioDays) : ScenarioDays[i] = today
    IN  IF done = Len(ScenarioDays) THEN {}
        ELSE {strptime(ScenarioDays[done + 1]) + tick : tick \in 0 .. (TicksPerDay - 1)}
ScenarioNext ==
    \/ StartRun(ScenarioInstants, {FullEnvironment})
    \/ FetchStock
    \/ FetchJobs
    \/ Finish({"ok"})
    \/ SendReport(SmtpOutcomes)
ScenarioSpec == Init /\ [][ScenarioNext]_vars

\* The baseline a references dict holds for a ticker, if any.
StockBaseline(refs, t) ==
    IF RefKey(t) \in DOMAIN refs.stock_references
    THEN Some(refs.stock_references[RefKey(t)]) ELSE None
JobBaseline(refs, t) ==
    IF t \in DOMAIN refs.job_references THEN Some(refs.job_references[t]) ELSE None

\* C17 -- End to end, from no references.json.  Day 1: the gate is open; a
\* price of 100.00 and a count of 50 are captured as baselines and reported
\* with a change of 0.  Day 2: 110.00 against the baseline 100.00 is
\* +10.00%.  Day 5: the gate is closed and there is no hiring section.
\* Day 11: the gate is open, 75 openings against the baseline 50 are
\* +50.00%, and the stored baselines are still 100.00 and 50.
EndToEndScenario ==
    LET held == StoredReferences(file_at_load)
        X == "NVDA"
    IN
    InRun =>
        /\ today = 1 =>
              /\ held = EmptyReferences
              /\ generate_jobs
              /\ \A r \in StockRowsOf(X) : r.CurrentPrice = 10000 =>
                    /\ r.ChangeVsReference = Some(0)
                    /\ StockBaseline(references, X) = Some(10000)
              /\ \A r \in JobRowsOf(X) : r.CurrentJobs = 50 =>
                    /\ r.ChangeVsReference = Some(0)
                    /\ JobBaseline(references, X) = Some(50)
              /\ AfterSave => StoredDate(file) = Some(1)
        /\ (today = 2 /\ StockBaseline(held, X) = Some(10000)) =>
              /\ ~generate_jobs
              /\ \A r \in StockRowsOf(X) : r.CurrentPrice = 11000 =>
                    r.ChangeVsReference = Some(1000)
        /\ today = 5 =>
              /\ held.last_report_date = Some(1)
              /\ ~generate_jobs
              /\ job_data = <<>>
              /\ job_report = None
        /\ today = 11 =>
              /\ held.last_report_date = Some(1)
              /\ generate_jobs
              /\ JobBaseline(held, X) = Some(50) =>
                    \A r \in JobRowsOf(X) : r.CurrentJobs = 75 =>
                        r.ChangeVsReference = Some(5000)
              /\ AfterSave =>
                    /\ StockBaseline(held, X) = Some(10000) =>
                          StockBaseline(StoredReferences(file), X) = Some(10000)
                    /\ JobBaseline(held, X) = Some(50) =>
                          JobBaseline(StoredReferences(file), X) = Some(50)

\* The end of the day-11 run of the scenario: baselines 100.00 and 50 from
\* day 1, 75 openings reported as +50.00%, the baselines still stored.
EndToEndScenarioWitness ==
    /\ pc = "done"
    /\ today = 11
    /\ StoredDate(file_at_load) = Some(1)
    /\ StockBaseline(StoredReferences(file_at_load), "NVDA") = Some(10000)
    /\ JobBaseline(StoredReferences(file_at_load), "NVDA") = Some(50)
    /\ \E r \in StockRowsOf("NVDA") : r.CurrentPrice = 11000 /\ r.ChangeVsReference = Some(1000)
    /\ \E r \in JobRowsOf("NVDA") : r.CurrentJobs = 75 /\ r.ChangeVsReference = Some(5000)
    /\ StockBaseline(StoredReferences(file), "NVDA") = Some(10000)
    /\ JobBaseline(StoredReferences(file), "NVDA") = Some(50)

\* C18 -- Cadence.  The stored date is the date of the last run that
\* executed the hiring pass, so with run dates that do not decrease: a run
\* that executes the hiring pass has a date at least IntervalDays after the
\* stored one (any two such runs are at least 10 days apart), and every run
\* whose date is at least IntervalDays after the stored one executes it.
HiringPassesTenDaysApart ==
    (InRun /\ StoredDate(file_at_load) # None) =>
        LET last == StoredDate(file_at_load)[1] IN
        /\ generate_jobs => today - last >= IntervalDays
        /\ today - last >= IntervalDays => generate_jobs

\* C19 -- A run with the gate closed leaves job_references as it was, in
\* memory and in references.json, and never enters the job loop; hiring
\* baselines are captured only in the job loop of a gate-open run, price
\* baselines in the stock loop of any run; the stock loop never changes
\* job_references and the job loop never changes stock_references.
GateClosedKeepsJobReferences ==
    [][/\ (InRun' /\ ~generate_jobs') =>
            /\ pc' # "jobs"
            /\ references'.job_references = StoredReferences(file_at_load').job_references
            /\ StoredReferences(file').job_references =
                   StoredReferences(file_at_load').job_references
       /\ references'.job_references # references.job_references =>
            \/ pc = "jobs" /\ generate_jobs
            \/ pc' = "stocks" /\ pc # "stocks"
       /\ references'.stock_references # references.stock_references =>
            \/ pc = "stocks"
            \/ pc' = "stocks" /\ pc # "stocks"]_vars

\* A gate-closed run that captured a price baseline and saved it, the
\* stored hiring baselines being what they were.
GateClosedKeepsJobReferencesWitness ==
    /\ pc = "done"
    /\ ~generate_jobs
    /\ NewStockCaptures # {}
    /\ saves = 1
    /\ StoredReferences(file).stock_references # StoredReferences(file_at_load).stock_references
    /\ StoredReferences(file_at_load).job_references # EmptyDict
    /\ StoredReferences(file).job_references = StoredReferences(file_at_load).job_references

====
